---- MODULE Spec2Model ----
(***************************************************************************)
(* Queue4Download client: the MQTT handler (app/mqtt_handler.py) and the   *)
(* LFTP transfer (app/transfer.py) as a state machine.                     *)
(*                                                                         *)
(* Two threads of control act on one MQTTHandler: the thread that called   *)
(* start() (connect with retry, the supervising loop, stop) and the        *)
(* transport's network loop, which invokes the callbacks on_connect,       *)
(* on_disconnect and on_message.  The transport (paho) and the transfer    *)
(* tool (lftp) are outside the repository: what they answer is chosen      *)
(* nondeterministically, and the transport may invoke the callbacks in any *)
(* order while its loop runs, as the unit tests do.                        *)
(*                                                                         *)
(* Specifications:                                                         *)
(*   Spec         the handler started and left to itself, every message    *)
(*   LifeSpec     the life cycle: with a caller of stop() outside start()  *)
(*                and ProcessEvent.start as the caller of start(), one     *)
(*                message                                                  *)
(*   FairSpec     LifeSpec, the thread in start() scheduled fairly         *)
(*   RecoverSpec  FairSpec, with a broker that accepts connections         *)
(*                                                                         *)
(* Text is a sequence of code points, a payload a sequence of bytes.       *)
(***************************************************************************)
EXTENDS Integers, Sequences, FiniteSets, TLC

\* ------------------------------------------------------------------ bounds
\* Largest number of tab-separated fields in a generated payload.
MaxFields == 5

\* Longest run of consecutive backoff waits that the history records.
MaxWaits == 4

\* ------------------------------------------------------- program constants
reconnect_delay == 5
max_reconnect_delay == 60
KEEPALIVE == 60
SUB_QOS == 2
PUB_QOS == 2
queue_channel == "Down"
LABEL_CHANNEL == "Label"
TAB == 9
\* "DONE", "NOPE", "NotUsed", "ERR" as code points
ACK == <<68, 79, 78, 69>>
NACK == <<78, 79, 80, 69>>
NOT_USED == <<78, 111, 116, 85, 115, 101, 100>>
ERR == <<69, 82, 82>>

\* ---------------------------------------------------------------- inputs
\* Field texts: "d/f" (a target: a remote path), "f" (a hash, an unknown type
\* code, an extra field), "NotUsed" and "MOV".
TARGET == <<100, 47, 102>>
F_TXT == <<102>>
MOV == <<77, 79, 86>>

RECURSIVE Join(_)
\* '\t'.join(fs): what the sender of an event does
Join(fs) ==
    IF Len(fs) = 0 THEN <<>>
    ELSE IF Len(fs) = 1 THEN fs[1]
    ELSE fs[1] \o <<TAB>> \o Join(Tail(fs))

\* The events sent: target "d/f", a hash, a type code and extra fields "f",
\* cut to their first n fields, n in 1..MaxFields.
Events ==
    { SubSeq(<<TARGET, h, t>> \o [i \in 1..(MaxFields - 3) |-> F_TXT], 1, n) :
        h \in {F_TXT, NOT_USED}, t \in {MOV, F_TXT}, n \in 1..MaxFields }

\* Payload bytes: the events tab-joined (pure ASCII, so the UTF-8 encoding is
\* the code points), the empty payload, a payload holding a two-byte UTF-8
\* character (U+00E9 as its first field), and payloads that are not UTF-8 (a
\* lone 0xFF, a lead byte without its continuation byte).
Payloads ==
    { Join(fs) : fs \in Events }
    \cup { <<>>,
           <<195, 169, TAB, 102>>,
           <<255, TAB, 102, TAB, 77, 79, 86>>,
           <<102, TAB, 102, TAB, 195>> }

\* Result codes the transport hands to on_connect / on_disconnect.
ConnectCodes == {0, 1, 2, 3, 4, 5, 99}
DisconnectCodes == {0, 1, 7, 99}

\* Type-to-directory maps the process may have loaded at startup.
Mappings ==
    { [t \in {MOV, ERR} |-> IF t = MOV THEN "/d/movies" ELSE "/d/err"],
      [t \in {MOV} |-> "/d/movies"] }

\* ------------------------------------------------------- pure functions
Min(a, b) == IF a <= b THEN a ELSE b

RECURSIVE Decode(_)
\* bytes.decode() (UTF-8, strict) for one- and two-byte sequences:
\* [ok |-> TRUE, text |-> code points] or [ok |-> FALSE] (UnicodeDecodeError)
Decode(b) ==
    IF Len(b) = 0 THEN [ok |-> TRUE, text |-> <<>>]
    ELSE IF b[1] < 128 THEN
        LET r == Decode(Tail(b))
        IN  IF r.ok THEN [ok |-> TRUE, text |-> <<b[1]>> \o r.text]
            ELSE [ok |-> FALSE, text |-> <<>>]
    ELSE IF b[1] \in 194..223 /\ Len(b) >= 2 /\ b[2] \in 128..191 THEN
        LET r == Decode(SubSeq(b, 3, Len(b)))
        IN  IF r.ok
            THEN [ok |-> TRUE,
                  text |-> <<(b[1] - 192) * 64 + (b[2] - 128)>> \o r.text]
            ELSE [ok |-> FALSE, text |-> <<>>]
    ELSE [ok |-> FALSE, text |-> <<>>]

RECURSIVE Split(_)
\* str.split('\t'): n tabs give n + 1 fields, empty fields kept
Split(s) ==
    IF \A i \in 1..Len(s) : s[i] # TAB THEN <<s>>
    ELSE LET i == CHOOSE k \in 1..Len(s) :
                      s[k] = TAB /\ \A j \in 1..(k - 1) : s[j] # TAB
         IN  <<SubSeq(s, 1, i - 1)>> \o Split(SubSeq(s, i + 1, Len(s)))

RECURSIVE Basename(_)
\* os.path.basename: the text after the last '/' (code point 47)
Basename(p) ==
    IF \A i \in 1..Len(p) : p[i] # 47 THEN p
    ELSE LET i == CHOOSE k \in 1..Len(p) :
                      p[k] = 47 /\ \A j \in 1..(k - 1) : p[j] # 47
         IN  Basename(SubSeq(p, i + 1, Len(p)))

\* ------------------------------------------------- transfer (transfer.py)
\* What the operating system and lftp answer during one transfer_file call.
\* "fail" is a non-zero exit (CalledProcessError); "raise" is any other
\* exception of subprocess.run (OSError on exec, ValueError on a NUL in an
\* argument), which transfer_file does not catch.
\* An answer that is never asked for (the call is not reached) is left at its
\* first value, so that each course of a transfer is listed once.
TransferEnvs ==
    { e \in [isdir : BOOLEAN, getcwd_ok : BOOLEAN, chdir_ok : BOOLEAN,
             lftp : BOOLEAN, mirror : {"ok", "fail", "raise"},
             pget : {"ok", "fail", "raise"}, chmod_ok : BOOLEAN] :
        /\ ~e.isdir => e.getcwd_ok
        /\ ~(e.isdir /\ e.getcwd_ok) => e.chdir_ok
        /\ ~(e.isdir /\ e.getcwd_ok /\ e.chdir_ok) => e.lftp
        /\ ~(e.isdir /\ e.getcwd_ok /\ e.chdir_ok /\ e.lftp)
               => e.mirror = "ok"
        /\ e.mirror # "fail" => e.pget = "ok"
        /\ (e.mirror = "raise" \/ e.pget = "raise") => e.chmod_ok }

\* Faulty variant: every type code is looked up as "ERR" (sensitivity of C27)
Lookup_asErr(map, typecode) == IF ERR \in DOMAIN map THEN map[ERR] ELSE ""

\* type_to_dir.get(typecode): "" stands for None (both are falsy at line 37)
Lookup(map, typecode) == IF typecode \in DOMAIN map THEN map[typecode] ELSE ""

\* Faulty variant: no fallback to the "ERR" entry (sensitivity of C23)
DestDir_noFallback(map, typecode) == Lookup(map, typecode)

\* Lines 33-47: the destination directory, "" when there is none.
DestDir(map, typecode) ==
    IF Lookup(map, typecode) # "" THEN Lookup(map, typecode)
    ELSE IF ERR \in DOMAIN map THEN map[ERR]
    ELSE ""

\* Faulty variant: an unknown type code is not noticed (sensitivity of C24)
Unmapped_never(map, typecode) == FALSE

\* Lines 37-47: neither the type code nor "ERR" gives a directory
Unmapped(map, typecode) == Lookup(map, typecode) = "" /\ ERR \notin DOMAIN map

\* Faulty variant: a missing directory is not noticed (sensitivity of C28)
DirMissing_ignored(isdir) == FALSE

\* Line 50: if not os.path.isdir(dest_dir)
DirMissing(isdir) == ~isdir

\* Lines 71-75 and 97-100: the two lftp command lines, by what tells them
\* apart (credentials, host, threads and segments are the configuration's)
MirrorCmd(target) == [cmd |-> "mirror", target |-> target]
PgetCmd(target) == [cmd |-> "pget", target |-> target]

\* Faulty variant: a failed mirror is not caught (sensitivity of C25)
FallsBack_never(mirror) == FALSE

\* Line 91: except subprocess.CalledProcessError, the non-zero exit of mirror
FallsBack(mirror) == mirror = "fail"

\* Faulty variant: the fallback's success is not counted (sensitivity of C26)
Transferred_mirrorOnly(mirror, pget) == mirror = "ok"

\* Lines 89, 114, 120: transferred, once both attempts are over
Transferred(mirror, pget) == mirror = "ok" \/ pget = "ok"

\* Faulty variant: a failed chmod fails the transfer (sensitivity of C29)
AfterChmod_failing(transferred, chmod_ok) == transferred /\ chmod_ok

\* Lines 125-138: the OSError of os.chmod is caught and logged; what is
\* returned is transferred
AfterChmod(transferred, chmod_ok) == transferred

\* The answers there are to a transfer_file call for typecode: when no
\* directory is resolved nothing is asked, and every answer is at its first
\* value
Asked(envs, map, typecode) ==
    IF DestDir(map, typecode) # "" THEN envs
    ELSE { e \in envs : /\ e.isdir /\ e.getcwd_ok /\ e.chdir_ok /\ e.lftp
                        /\ e.mirror = "ok" /\ e.pget = "ok" /\ e.chmod_ok }

\* Faulty variant: the working directory is restored before transfer_file
\* returns (sensitivity of C40)
DirAfterChdir_restored(wd, dest) == wd

\* Lines 57-138: once os.chdir(dest_dir) has succeeded, no path through the
\* rest of transfer_file changes the working directory again
DirAfterChdir(wd, dest) == dest

\* The calls that precede the transfer, in the order of lines 50-64
Checks == <<"isdir", "getcwd", "chdir", "which">>

\* transfer_file(target, hash_, typecode) with working directory wd:
\*   ret    the boolean returned (meaningless when raised)
\*   raised an exception left transfer_file
\*   steps  the calls made to the operating system, in order
\*   runs   the subprocess invocations, in order
\*   wd     the working directory afterwards
\*   chmod  the names os.chmod was attempted on
\*   warned os.chmod failed, which is logged and changes nothing else
\*   dest   the destination directory resolved, "" when there is none
TransferFile(map, target, typecode, wd, env) ==
    LET dest == DestDir(map, typecode)
        res(ret, raised, steps, runs, w, ch) ==
            [ret |-> ret, raised |-> raised, steps |-> steps, runs |-> runs,
             wd |-> w, chmod |-> ch, warned |-> ch # <<>> /\ ~env.chmod_ok,
             dest |-> dest]
        upTo(k) == SubSeq(Checks, 1, k)
        one == <<MirrorCmd(target)>>
        two == <<MirrorCmd(target), PgetCmd(target)>>
        base == <<Basename(target)>>
        there == DirAfterChdir(wd, dest)
    IN  IF Unmapped(map, typecode)
            THEN res(FALSE, FALSE, <<>>, <<>>, wd, <<>>)
        ELSE IF dest = "" \/ DirMissing(env.isdir)
            THEN res(FALSE, FALSE, upTo(1), <<>>, wd, <<>>)
        ELSE IF ~env.getcwd_ok
            THEN res(FALSE, TRUE, upTo(2), <<>>, wd, <<>>)
        ELSE IF ~env.chdir_ok
            THEN res(FALSE, FALSE, upTo(3), <<>>, wd, <<>>)
        ELSE IF ~env.lftp
            THEN res(FALSE, FALSE, upTo(4), <<>>, there, <<>>)
        ELSE IF env.mirror = "ok"
            THEN res(AfterChmod(Transferred(env.mirror, "-"), env.chmod_ok),
                     FALSE, upTo(4) \o <<"run", "chmod">>, one, there, base)
        ELSE IF ~FallsBack(env.mirror)
            THEN res(FALSE, TRUE, upTo(4) \o <<"run">>, one, there, <<>>)
        ELSE IF env.pget = "raise"
            THEN res(FALSE, TRUE, upTo(4) \o <<"run", "run">>, two, there,
                     <<>>)
        ELSE res(AfterChmod(Transferred(env.mirror, env.pget), env.chmod_ok),
                 FALSE, upTo(4) \o <<"run", "run", "chmod">>, two, there,
                 base)

\* ------------------------------------------ message handling (pure parts)
\* Faulty variant: a three-field event is discarded as malformed
\* (sensitivity of C38)
Malformed_four(event) == Len(event) < 4

\* Faulty variant: two fields are enough (sensitivity of C1)
Malformed_two(event) == Len(event) < 2

\* Line 194: fewer than three fields is a malformed event.
Malformed(event) == Len(event) < 3

\* Faulty variant: the last three fields are taken (sensitivity of C22)
FirstThree_lastThree(event) == SubSeq(event, Len(event) - 2, Len(event))

\* Line 199: event[:3], the first three fields (fewer when there are fewer)
FirstThree(event) == SubSeq(event, 1, Min(3, Len(event)))

\* Faulty variant: the "NotUsed" sentinel is not looked at (sensitivity of C3)
ShouldLabel_anyHash(lab, hash) == lab

\* Faulty variant: the labelling flag is not looked at (sensitivity of C4)
ShouldLabel_anyFlag(lab, hash) == hash # NOT_USED

\* Line 210: the acknowledgment is wanted
ShouldLabel(lab, hash) == lab /\ hash # NOT_USED

\* Faulty variant: the two labels are swapped (sensitivity of C2)
LabelFor_swapped(ok) == IF ok THEN NACK ELSE ACK

\* Line 223: label = ACK if success else NACK
LabelFor(ok) == IF ok THEN ACK ELSE NACK

\* Faulty variant: the acknowledgment does not name its message
\* (sensitivity of C31)
LabelEvent_noHash(hash, ok) == LabelFor(ok)

\* Line 224: event = f"{hash_}\t{label}"
LabelEvent(hash, ok) == hash \o <<TAB>> \o LabelFor(ok)

\* Faulty variant: the connection is not looked at (sensitivity of C5)
CannotPublish_never(conn) == FALSE

\* Line 219: publish_label_event gives up without a connection
CannotPublish(conn) == ~conn

\* Faulty variant: a publish that fails is made again (sensitivity of C39)
PublishLabelEvent_retried(conn, hash, ok, answer) ==
    LET call == [topic |-> LABEL_CHANNEL, payload |-> LabelEvent(hash, ok),
                 qos |-> PUB_QOS]
    IN  IF CannotPublish(conn) THEN [calls |-> <<>>, ret |-> "None"]
        ELSE [calls |-> IF answer = "ok" THEN <<call>> ELSE <<call, call>>,
              ret |-> "None"]

\* publish_label_event(hash_, success) with self.connected = conn; answer is
\* what client.publish does: "ok" (rc 0), "rc_fail" (rc # 0) or "raise"
\* (caught at line 238).  calls: the client.publish calls made; ret: the value
\* returned to the caller, None on every path.
PublishLabelEvent(conn, hash, ok, answer) ==
    IF CannotPublish(conn) THEN [calls |-> <<>>, ret |-> "None"]
    ELSE [calls |-> <<[topic |-> LABEL_CHANNEL,
                       payload |-> LabelEvent(hash, ok),
                       qos |-> PUB_QOS]>>,
          ret |-> "None"]

\* ------------------------------------------------ connection (pure parts)
\* Faulty variant: only the known refusal codes 1..5 refuse (sensitivity of C8)
ConnectAccepted_unknown(rc) == rc \notin 1..5

\* Line 114: rc == 0 is a successful connect
ConnectAccepted(rc) == rc = 0

\* Faulty variant: the delay is not reset (sensitivity of C9)
DelayAfterConnect_kept(d) == d

\* Line 117: the delay after a successful connect
DelayAfterConnect(d) == reconnect_delay

\* Faulty variant: the subscription is made at QoS 1 (sensitivity of C7)
SubscribeRequests_qos1 == <<[topic |-> queue_channel, qos |-> 1]>>

\* Line 122: the subscribe requests on_connect issues on success
SubscribeRequests == <<[topic |-> queue_channel, qos |-> SUB_QOS]>>

\* Faulty variant: a refusal doubles the backoff as a failed connect call
\* does (sensitivity of C36)
DelayAfterRefusal_doubled(d) == Min(d * 2, max_reconnect_delay)

\* Lines 130-140: the refusal branch of on_connect assigns connected and
\* logs; the backoff is what it was
DelayAfterRefusal(d) == d

\* Faulty variant: the delay is tripled (sensitivity of C34)
NextDelay_tripled(d) == Min(d * 3, max_reconnect_delay)

\* Faulty variant: the doubling is not capped (sensitivity of C10)
NextDelay_uncapped(d) == d * 2

\* Lines 108-109: min(current * 2, max)
NextDelay(d) == Min(d * 2, max_reconnect_delay)

\* Faulty variant: a clean disconnect (rc 0) leaves connected as it was
\* (sensitivity of C12)
DisconnectLeaves_abnormalOnly(conn, rc) == IF rc = 0 THEN conn ELSE FALSE

\* Line 144: connected after on_disconnect, whatever it was and whatever rc
DisconnectLeaves(conn, rc) == FALSE

\* Faulty variant: stop() always disconnects (sensitivity of C16)
ShouldDisconnect_always(conn) == TRUE

\* Line 83: stop() calls client.disconnect() if self.connected
ShouldDisconnect(conn) == conn

\* Faulty variant: a failed subscribe drops the connection state
\* (sensitivity of C20)
ConnectedAfterSubscribe_failDrops(answer) == answer = "ok"

\* Lines 115-128: connected after on_connect(0); what client.subscribe
\* answered is only logged
ConnectedAfterSubscribe(answer) == TRUE

\* Faulty variant: stop() leaves running as it is (sensitivity of C17)
RunningAfterStop_kept(run) == run

\* Line 79: running after stop()
RunningAfterStop(run) == FALSE

\* Faulty variant: the supervising loop ends at once (sensitivity of C19)
LoopContinues_never(run) == FALSE

\* Line 66: while self.running
LoopContinues(run) == run

\* Faulty variant: the connect procedure never attempts (sensitivity of C14)
Retries_never(run, conn) == FALSE

\* Line 91: while self.running and not self.connected
Retries(run, conn) == run /\ ~conn

\* Faulty variant: the poll never reconnects (sensitivity of C13)
Reconnects_never(conn) == FALSE

\* Line 67: if not self.connected
Reconnects(conn) == ~conn

\* Faulty variant: a failed connect attempt ends start() (sensitivity of C15)
AfterConnectError_fatal == "raised"

\* Lines 99-105: a failed connect attempt is caught and leads to the wait
AfterConnectError == "cwr_sleep"

\* Faulty variant: ProcessEvent.start swallows the exception (sensitivity of
\* C33)
AfterCleanup_swallowed == "stopped"

\* process_event.py, line 91: raise, after self.stop()
AfterCleanup == "pe_reraised"

\* Faulty variant: loop_stop returns while a callback is still running
\* (sensitivity of C32)
LoopStopReturns_atOnce(n) == TRUE

\* Line 82: client.loop_stop() joins the network loop thread, so it returns
\* once that thread, at position n, is in no callback
LoopStopReturns(n) == n = "idle"

\* Faulty variant: the wait uses the delay after doubling (sensitivity of C11)
SleepFor_doubled(d) == NextDelay(d)

\* Line 105: the wait uses the current delay, which line 108 doubles afterwards
SleepFor(d) == d

\* ------------------------------------------------------------------ state
VARIABLES
    connected,                \* self.connected
    running,                  \* self.running
    current_reconnect_delay,  \* self.current_reconnect_delay
    labelling,                \* config.labelling
    type_to_dir,              \* FileTransfer.type_to_dir
    cwd,                      \* the process working directory
    mpc,                      \* where the thread that called start() is
    mret,                     \* who called _connect_with_retry: "start" | "loop"
    delay_read,               \* the delay line 108 read, before it is written
    loop_running,             \* the transport's network loop thread runs
    npc,                      \* where the network loop thread is
    requested,                \* a client.connect that returned awaits its on_connect
    xpc,                      \* where a caller of stop() outside start() is
    event,                    \* <<filename, hash_, typecode>> being handled
    lastOp,                   \* history: the step taken last
    lastArg,                  \* history: its input or branch, as text
    lastNum,                  \* history: its number (result code, delay), else -1
    pre,                      \* history: connected/running/delay before it
    subscribed,               \* history: subscribe requests the last step issued
    waits,                    \* history: the backoff waits of the current run of
                              \*          failed attempts, oldest first
    msg                       \* history: the on_message invocation in progress,
                              \*          or the one the last step ended

vars == <<connected, running, current_reconnect_delay, labelling, type_to_dir,
          cwd, mpc, mret, delay_read, loop_running, npc, xpc, requested, event,
          lastOp, lastArg, lastNum, pre, subscribed, waits,
          msg>>

config == <<labelling, type_to_dir>>
handler == <<connected, running, current_reconnect_delay>>
mainThread == <<mpc, mret, delay_read>>
netThread == <<npc, event>>

\* connected/running/delay as they are now: what a step stores in pre
Snapshot ==
    [connected |-> connected, running |-> running,
     delay |-> current_reconnect_delay]

\* A step's history: its name, its inputs, the handler's fields before it
Note(op, arg, num) ==
    lastOp' = op /\ lastArg' = arg /\ lastNum' = num /\ pre' = Snapshot

\* No on_message invocation in progress or just returned.  payload is shown
\* by the step that received it; xfers are the argument triples of the
\* transfer_file calls made, done their answers and results
NoMsg ==
    [payload |-> <<>>, decoded |-> FALSE, outcome |-> "none",
     xfers |-> <<>>, done |-> <<>>, runs |-> <<>>, returned |-> FALSE,
     ret |-> FALSE,
     pubs |-> <<>>,
     labelCalled |-> FALSE, labelConn |-> FALSE, labelRet |-> "-"]

\* History of a step outside on_message: it issues no subscribe request, and
\* an on_message invocation that has ended is no longer the last step
Forget ==
    IF msg.outcome = "running" THEN [msg EXCEPT !.payload = <<>>] ELSE NoMsg

\* The run of backoff waits so far: a callback of the network loop ends it
\* (on_connect is still shown with the waits that preceded it)
Since == IF lastOp = "on_connect" THEN <<>> ELSE waits
Quiet == subscribed' = <<>> /\ msg' = Forget /\ waits' = Since

\* MQTTHandler.__init__ (lines 20-46) and the loaded configuration
Init ==
    /\ connected = FALSE
    /\ running = FALSE
    /\ current_reconnect_delay = reconnect_delay
    /\ labelling \in BOOLEAN
    /\ type_to_dir \in Mappings
    /\ cwd = "/app"
    /\ mpc = "init"
    /\ mret = "start"
    /\ delay_read = reconnect_delay
    /\ loop_running = FALSE
    /\ npc = "idle"
    /\ xpc = "idle"
    /\ requested = FALSE
    /\ event = <<>>
    /\ lastOp = "init"
    /\ lastArg = "-"
    /\ lastNum = -1
    /\ pre = [connected |-> FALSE, running |-> FALSE, delay |-> reconnect_delay]
    /\ subscribed = <<>>
    /\ waits = <<>>
    /\ msg = NoMsg

\* ------------------------------------------- the thread that called start()
\* Where _connect_with_retry returns to
CwrReturn == IF mret = "start" THEN "loop_start" ELSE "poll_sleep"

\* start(), lines 57-58: running = True, then _connect_with_retry()
Start ==
    /\ mpc = "init"
    /\ running' = TRUE
    /\ mpc' = "cwr_test"
    /\ mret' = "start"
    /\ Note("start", "-", -1)
    /\ UNCHANGED <<connected, current_reconnect_delay, config, xpc, requested,
                   cwd, delay_read, loop_running, netThread>>
    /\ Quiet

\* Line 91: while self.running and not self.connected
CwrTest ==
    /\ mpc = "cwr_test"
    /\ mpc' = IF Retries(running, connected) THEN "cwr_connect"
              ELSE CwrReturn
    /\ Note("cwr_test", "-", -1)
    /\ UNCHANGED <<handler, config, xpc, requested, cwd, mret, delay_read,
                   loop_running, netThread>>
    /\ Quiet

\* Lines 95-100: client.connect(host, port, 60) returns (break) or raises
\* (any Exception is caught); the number noted is the keepalive it carries
CwrConnect ==
    /\ mpc = "cwr_connect"
    /\ \E ok \in BOOLEAN :
        /\ mpc' = IF ok THEN CwrReturn ELSE AfterConnectError
        /\ requested' = (ok \/ requested)
        /\ Note("connect", IF ok THEN "returned" ELSE "raised", KEEPALIVE)
    /\ UNCHANGED <<handler, config, xpc, cwd, mret, delay_read, loop_running,
                   netThread>>
    /\ Quiet

\* Line 105: time.sleep(self.current_reconnect_delay)
CwrSleep ==
    /\ mpc = "cwr_sleep"
    /\ mpc' = "cwr_read"
    /\ Note("backoff_sleep", "-", SleepFor(current_reconnect_delay))
    /\ waits' = IF Len(Since) < MaxWaits
                THEN Append(Since, SleepFor(current_reconnect_delay))
                ELSE Since
    /\ subscribed' = <<>>
    /\ msg' = Forget
    /\ UNCHANGED <<handler, config, xpc, requested, cwd, mret, delay_read,
                   loop_running, netThread>>

\* Line 108, first half: the right-hand side reads the current delay
CwrRead ==
    /\ mpc = "cwr_read"
    /\ delay_read' = current_reconnect_delay
    /\ mpc' = "cwr_write"
    /\ Note("backoff_read", "-", current_reconnect_delay)
    /\ UNCHANGED <<handler, config, xpc, requested, cwd, mret, loop_running,
                   netThread>>
    /\ Quiet

\* Lines 108-109, second half: the doubled, capped delay is stored
CwrWrite ==
    /\ mpc = "cwr_write"
    /\ current_reconnect_delay' = NextDelay(delay_read)
    /\ mpc' = "cwr_test"
    /\ delay_read' = reconnect_delay
    /\ Note("backoff_write", "-", delay_read)
    /\ UNCHANGED <<connected, running, config, xpc, requested, cwd, mret,
                   loop_running, netThread>>
    /\ Quiet

\* Line 61: client.loop_start()
LoopStart ==
    /\ mpc = "loop_start"
    /\ loop_running' = TRUE
    /\ mpc' = "poll_running"
    /\ Note("loop_start", "-", -1)
    /\ UNCHANGED <<handler, config, xpc, requested, cwd, mret, delay_read,
                   netThread>>
    /\ Quiet

\* Line 66: while self.running; the loop's end leads to finally: self.stop()
PollRunning ==
    /\ mpc = "poll_running"
    /\ mpc' = IF LoopContinues(running) THEN "poll_connected"
              ELSE "stop_running"
    /\ Note("poll_running", "-", -1)
    /\ UNCHANGED <<handler, config, xpc, requested, cwd, mret, delay_read,
                   loop_running, netThread>>
    /\ Quiet

\* Lines 67-69: if not self.connected: self._connect_with_retry()
PollConnected ==
    /\ mpc = "poll_connected"
    /\ IF Reconnects(connected)
       THEN mpc' = "cwr_test" /\ mret' = "loop"
       ELSE mpc' = "poll_sleep" /\ mret' = mret
    /\ Note("poll_connected", "-", -1)
    /\ UNCHANGED <<handler, config, xpc, requested, cwd, delay_read,
                   loop_running, netThread>>
    /\ Quiet

\* Line 70: time.sleep(1)
PollSleep ==
    /\ mpc = "poll_sleep"
    /\ mpc' = "poll_running"
    /\ Note("poll_sleep", "-", -1)
    /\ UNCHANGED <<handler, config, xpc, requested, cwd, mret, delay_read,
                   loop_running, netThread>>
    /\ Quiet

\* The statements of start() inside try (lines 65-70, with the calls made there)
InTry ==
    \/ mpc \in {"poll_running", "poll_connected", "poll_sleep"}
    \/ mpc \in {"cwr_test", "cwr_connect", "cwr_sleep", "cwr_read", "cwr_write"}
       /\ mret = "loop"

\* The statements of start() before try (lines 57-62)
BeforeTry ==
    \/ mpc = "loop_start"
    \/ mpc \in {"cwr_test", "cwr_connect", "cwr_sleep", "cwr_read", "cwr_write"}
       /\ mret = "start"

\* KeyboardInterrupt in the thread running start(): inside try it is caught
\* (line 71) and finally runs stop(); before try it leaves start() at once
\* (within _connect_with_retry, except Exception does not catch it).
Interrupt ==
    /\ InTry \/ BeforeTry
    /\ mpc' = IF InTry THEN "stop_running" ELSE "raised"
    /\ Note("interrupt", IF InTry THEN "caught" ELSE "propagated", -1)
    /\ UNCHANGED <<handler, config, xpc, requested, cwd, mret, delay_read,
                   loop_running, netThread>>
    /\ Quiet

\* stop(), line 79: running = False
StopRunning ==
    /\ mpc = "stop_running"
    /\ running' = RunningAfterStop(running)
    /\ mpc' = "stop_loop"
    /\ Note("stop_running", "-", -1)
    /\ UNCHANGED <<connected, current_reconnect_delay, config, xpc, requested,
                   cwd, mret, delay_read, loop_running, netThread>>
    /\ Quiet

\* stop(), line 82: client.loop_stop() joins the network loop thread, so it
\* returns once the callback in progress has returned
StopLoop ==
    /\ mpc = "stop_loop"
    /\ LoopStopReturns(npc)
    /\ loop_running' = FALSE
    /\ mpc' = "stop_disconnect"
    /\ Note("loop_stop", "-", -1)
    /\ UNCHANGED <<handler, config, xpc, requested, cwd, mret, delay_read,
                   netThread>>
    /\ Quiet

\* stop(), lines 83-84: client.disconnect() is called after loop_stop(), so
\* no loop thread is left to deliver on_disconnect.  The transport may send
\* the DISCONNECT packet within the call and invoke on_disconnect(0) in the
\* calling thread before it returns (TRUE), or invoke nothing (FALSE)
DisconnectCallbacks(conn) == IF ShouldDisconnect(conn) THEN BOOLEAN ELSE {FALSE}

\* Faulty variant: stop() itself clears connected (sensitivity of C37)
ConnectedAfterStop_cleared(conn) == FALSE

\* stop(), lines 76-87, assigns running only: connected is what it was
ConnectedAfterStop(conn) == conn

\* Lines 83-87 as run by op: disconnect if connected, with the on_disconnect(0)
\* the transport may invoke within the call (noted as the number 0)
DisconnectStep(op) ==
    \E cb \in DisconnectCallbacks(connected) :
        /\ connected' = IF cb THEN DisconnectLeaves(connected, 0)
                         ELSE ConnectedAfterStop(connected)
        /\ requested' = IF cb THEN FALSE ELSE requested
        /\ Note(op, IF ShouldDisconnect(connected) THEN "disconnect" ELSE "skip",
                IF cb THEN 0 ELSE -1)

\* stop(), lines 83-87: if self.connected: client.disconnect()
StopDisconnect ==
    /\ mpc = "stop_disconnect"
    /\ mpc' = "stopped"
    /\ DisconnectStep("stop_disconnect")
    /\ UNCHANGED <<running, current_reconnect_delay, config, xpc, cwd, mret,
                   delay_read, loop_running, netThread>>
    /\ Quiet

\* ------------------------------- ProcessEvent.start, the caller of start()
\* An Exception leaves start(): client.loop_start() at line 61 fails (the
\* thread cannot be started), outside try and outside the retry's except.
\* It arrives in the except clause of ProcessEvent.start
\* (process_event.py, lines 87-91).
LoopStartRaises ==
    /\ mpc = "loop_start"
    /\ mpc' = "pe_stop_running"
    /\ Note("loop_start", "raised", -1)
    /\ UNCHANGED <<handler, config, xpc, requested, cwd, mret, delay_read,
                   loop_running, netThread>>
    /\ Quiet

\* process_event.py, line 90: self.stop(), which calls mqtt_handler.stop()
\* (lines 93-98); its three steps are those of lines 79, 82 and 83-84 of
\* mqtt_handler.py, noted in the history with the prefix pe_
PeStopRunning ==
    /\ mpc = "pe_stop_running"
    /\ running' = RunningAfterStop(running)
    /\ mpc' = "pe_stop_loop"
    /\ Note("pe_stop_running", "-", -1)
    /\ UNCHANGED <<connected, current_reconnect_delay, config, xpc, requested,
                   cwd, mret, delay_read, loop_running, netThread>>
    /\ Quiet

PeStopLoop ==
    /\ mpc = "pe_stop_loop"
    /\ LoopStopReturns(npc)
    /\ loop_running' = FALSE
    /\ mpc' = "pe_stop_disconnect"
    /\ Note("pe_loop_stop", "-", -1)
    /\ UNCHANGED <<handler, config, xpc, requested, cwd, mret, delay_read,
                   netThread>>
    /\ Quiet

\* The last step of the cleanup, and line 91: raise
PeStopDisconnect ==
    /\ mpc = "pe_stop_disconnect"
    /\ mpc' = AfterCleanup
    /\ DisconnectStep("pe_stop_disconnect")
    /\ UNCHANGED <<running, current_reconnect_delay, config, xpc, cwd, mret,
                   delay_read, loop_running, netThread>>
    /\ Quiet

\* ------------------------------------- a caller of stop() outside start()
\* stop() is public: ProcessEvent.stop() calls it (its signal handler and its
\* except clause do), and the unit tests clear running while start() is inside
\* client.connect.  Such a call may come before start(), while start() runs,
\* or after it; its three steps are those of lines 79, 82 and 83-84, noted
\* in the history with the prefix out_.  What the signal handler does after
\* stop(), sys.exit(0) in the thread of start(), is not modelled: here the
\* thread in start() goes on.
ExtStopRunning ==
    /\ xpc = "idle"
    /\ running' = RunningAfterStop(running)
    /\ xpc' = "stop_loop"
    /\ Note("out_stop_running", "-", -1)
    /\ UNCHANGED <<connected, current_reconnect_delay, config, requested, cwd,
                   mainThread, loop_running, netThread>>
    /\ Quiet

ExtStopLoop ==
    /\ xpc = "stop_loop"
    /\ LoopStopReturns(npc)
    /\ loop_running' = FALSE
    /\ xpc' = "stop_disconnect"
    /\ Note("out_loop_stop", "-", -1)
    /\ UNCHANGED <<handler, config, requested, cwd, mainThread, netThread>>
    /\ Quiet

ExtStopDisconnect ==
    /\ xpc = "stop_disconnect"
    /\ xpc' = "idle"
    /\ DisconnectStep("out_stop_disconnect")
    /\ UNCHANGED <<running, current_reconnect_delay, config, cwd, mainThread,
                   loop_running, netThread>>
    /\ Quiet

\* -------------------------------------------- the network loop's callbacks
\* Faulty variant: a callback is invoked while another one runs
\* (sensitivity of C30)
CanCall_reentrant == loop_running

\* The loop thread invokes one callback at a time.
CanCall == loop_running /\ npc = "idle"

\* on_connect(client, userdata, flags, rc), lines 112-140.  answer is what
\* client.subscribe returns: "ok" (MQTT_ERR_SUCCESS) or "error"; both are
\* only logged.
OnConnect ==
    /\ CanCall
    /\ \E rc \in ConnectCodes :
        IF ConnectAccepted(rc)
        THEN \E answer \in {"ok", "error"} :
             /\ connected' = ConnectedAfterSubscribe(answer)
             /\ current_reconnect_delay' =
                    DelayAfterConnect(current_reconnect_delay)
             /\ subscribed' = SubscribeRequests
             /\ Note("on_connect", answer, rc)
        ELSE /\ connected' = FALSE
             /\ current_reconnect_delay' =
                    DelayAfterRefusal(current_reconnect_delay)
             /\ subscribed' = <<>>
             /\ Note("on_connect", "refused", rc)
    /\ msg' = Forget
    /\ requested' = FALSE
    /\ waits' = Since
    /\ UNCHANGED <<running, config, xpc, cwd, mainThread, loop_running,
                   netThread>>

\* on_disconnect(client, userdata, rc), lines 142-162
OnDisconnect ==
    /\ CanCall
    /\ \E rc \in DisconnectCodes :
        /\ connected' = DisconnectLeaves(connected, rc)
        /\ Note("on_disconnect", "-", rc)
    /\ subscribed' = <<>>
    /\ msg' = Forget
    /\ requested' = FALSE
    /\ waits' = <<>>
    /\ UNCHANGED <<running, current_reconnect_delay, config, xpc, cwd,
                   mainThread, loop_running, netThread>>

\* What the transport hands to on_message, with what line 188 (decode) and
\* line 193 (split) make of it
Deliveries ==
    { [payload |-> p, ok |-> Decode(p).ok, ev |-> Split(Decode(p).text)] :
        p \in Payloads }

\* on_message, lines 186-204: decode, split, the malformed-event return, for
\* a payload among those the broker delivers
OnMessageOf(delivered) ==
    /\ CanCall
    /\ \E d \in delivered :
        IF ~d.ok
        THEN /\ msg' = [NoMsg EXCEPT !.payload = d.payload,
                                     !.outcome = "raised"]
             /\ Note("on_message", "decode_error", -1)
             /\ UNCHANGED <<npc, event>>
        ELSE IF Malformed(d.ev)
        THEN /\ msg' = [NoMsg EXCEPT !.payload = d.payload,
                                     !.decoded = TRUE,
                                     !.outcome = "returned"]
             /\ Note("on_message", "malformed", Len(d.ev))
             /\ UNCHANGED <<npc, event>>
        ELSE /\ msg' = [NoMsg EXCEPT !.payload = d.payload,
                                     !.decoded = TRUE,
                                     !.outcome = "running"]
             /\ event' = FirstThree(d.ev)
             /\ npc' = "transfer"
             /\ Note("on_message", "parsed", Len(d.ev))
    /\ subscribed' = <<>>
    /\ waits' = <<>>
    /\ UNCHANGED <<handler, config, xpc, requested, cwd, mainThread,
                   loop_running>>

OnMessage == OnMessageOf(Deliveries)

\* What client.publish may answer: rc 0, rc # 0, or an exception
PublishAnswers == {"ok", "rc_fail", "raise"}

\* on_message, lines 206-215: the blocking transfer_file call returns or
\* raises; when it returns, the acknowledgment is published or skipped
\* (publish_label_event, lines 217-240) and on_message returns.  What the
\* second half reads, config.labelling and self.connected, is written by no
\* other thread, so the two halves are one step.  envs is how the file
\* system and lftp may answer.
TransferIn(envs) ==
    /\ npc = "transfer"
    /\ \E env \in Asked(envs, type_to_dir, event[3]) :
        LET r == TransferFile(type_to_dir, event[1], event[3], cwd, env)
            m == [msg EXCEPT !.payload = <<>>,
                             !.xfers = Append(@, event),
                             !.done = Append(@, [env |-> env, res |-> r]),
                             !.runs = r.runs]
        IN  /\ cwd' = r.wd
            /\ IF r.raised
               THEN /\ msg' = [m EXCEPT !.outcome = "raised"]
                    /\ Note("transfer", "raised", -1)
               ELSE IF ShouldLabel(labelling, event[2])
               THEN \E answer \in PublishAnswers :
                    LET p == PublishLabelEvent(connected, event[2], r.ret,
                                               answer)
                    IN  /\ msg' = [m EXCEPT !.returned = TRUE,
                                            !.ret = r.ret,
                                            !.pubs = p.calls,
                                            !.labelCalled = TRUE,
                                            !.labelConn = connected,
                                            !.labelRet = p.ret,
                                            !.outcome = "returned"]
                        /\ Note("transfer",
                                IF p.calls = <<>> THEN "not_sent" ELSE answer,
                                -1)
               ELSE /\ msg' = [m EXCEPT !.returned = TRUE,
                                        !.ret = r.ret,
                                        !.outcome = "returned"]
                    /\ Note("transfer", "no_label", -1)
    /\ npc' = "idle"
    /\ event' = <<>>
    /\ subscribed' = <<>>
    /\ waits' = <<>>
    /\ UNCHANGED <<handler, config, xpc, requested, mainThread, loop_running>>

Transfer == TransferIn(TransferEnvs)

\* ---------------------------------------------------------- specification
Next ==
    \/ Start
    \/ CwrTest
    \/ CwrConnect
    \/ CwrSleep
    \/ CwrRead
    \/ CwrWrite
    \/ LoopStart
    \/ PollRunning
    \/ PollConnected
    \/ PollSleep
    \/ Interrupt
    \/ StopRunning
    \/ StopLoop
    \/ StopDisconnect
    \/ OnConnect
    \/ OnDisconnect
    \/ OnMessage
    \/ Transfer

\* The handler started and left to itself, with every message and every
\* answer of the file system and of lftp
Spec == Init /\ [][Next]_vars

\* ------------------------------------------------ the handler's life cycle
\* The same handler with a caller of stop() outside start().  What the
\* messages carry does not bear on connecting, retrying and stopping: one
\* well-formed message and one transfer that succeeds keep the network loop
\* busy as any other would.
LifeDeliveries == { d \in Deliveries : d.ev = <<TARGET, F_TXT, MOV>> }
LifeEnvs ==
    { e \in TransferEnvs :
        e.isdir /\ e.getcwd_ok /\ e.chdir_ok /\ e.lftp /\ e.mirror = "ok"
        /\ e.chmod_ok }

LifeInit == Init /\ ~labelling /\ DOMAIN type_to_dir = {MOV}

LifeOnMessage == OnMessageOf(LifeDeliveries)
LifeTransfer == TransferIn(LifeEnvs)

LifeNext ==
    \/ Start
    \/ CwrTest
    \/ CwrConnect
    \/ CwrSleep
    \/ CwrRead
    \/ CwrWrite
    \/ LoopStart
    \/ PollRunning
    \/ PollConnected
    \/ PollSleep
    \/ Interrupt
    \/ StopRunning
    \/ StopLoop
    \/ StopDisconnect
    \/ LoopStartRaises
    \/ PeStopRunning
    \/ PeStopLoop
    \/ PeStopDisconnect
    \/ ExtStopRunning
    \/ ExtStopLoop
    \/ ExtStopDisconnect
    \/ OnConnect
    \/ OnDisconnect
    \/ LifeOnMessage
    \/ LifeTransfer

LifeSpec == LifeInit /\ [][LifeNext]_vars

\* The steps of the thread that called start(), but for an interrupt: the
\* thread is scheduled again and again, its sleeps end, and loop_stop returns
\* once the network loop is idle
Supervise ==
    \/ CwrTest
    \/ CwrConnect
    \/ CwrSleep
    \/ CwrRead
    \/ CwrWrite
    \/ LoopStart
    \/ PollRunning
    \/ PollConnected
    \/ PollSleep
    \/ StopRunning
    \/ StopLoop
    \/ StopDisconnect
    \/ PeStopRunning
    \/ PeStopLoop
    \/ PeStopDisconnect

\* The life cycle with the supervising thread scheduled fairly
FairSpec == LifeSpec /\ WF_vars(Supervise)

\* A broker that accepts connections: of the connect attempts made again and
\* again one returns, and a connect that returned is acknowledged with result
\* code 0 once the network loop is free to deliver it
ConnectReturns == CwrConnect /\ lastArg' = "returned"
Acknowledge == requested /\ OnConnect /\ lastNum' = 0

\* The life cycle with a fair supervising thread, transfers that end and a
\* broker that accepts connections
RecoverSpec ==
    /\ LifeSpec
    /\ WF_vars(Supervise)
    /\ WF_vars(LifeTransfer)
    /\ SF_vars(ConnectReturns)
    /\ SF_vars(Acknowledge)

\* ================================================================= claims
\* The hash and the type code of the message being handled or just handled
MsgHash == msg.xfers[1][2]
Handled == lastOp = "transfer" /\ msg.xfers # <<>>

\* "{contentHash}<TAB>DONE" / "{contentHash}<TAB>NOPE", spelled out
AckText(hash, ok) ==
    hash \o <<9>> \o (IF ok THEN <<68, 79, 78, 69>> ELSE <<78, 79, 80, 69>>)

\* C1: a payload that splits on tab into fewer than 3 fields makes on_message
\* return at once: no transfer_file call, no acknowledgment, and connected,
\* running and the current backoff are what they were before the call.
C1_MalformedDiscarded ==
    (lastOp = "on_message" /\ msg.decoded /\ lastNum < 3) =>
        /\ msg.outcome = "returned"
        /\ npc = "idle"
        /\ event = <<>>
        /\ msg.xfers = <<>>
        /\ msg.runs = <<>>
        /\ msg.pubs = <<>>
        /\ ~msg.labelCalled
        /\ Snapshot = pre

\* C1 happens: a two-field payload arrives at a connected, running handler
C1_Witness ==
    /\ lastOp = "on_message"
    /\ msg.decoded
    /\ lastNum = 2
    /\ connected
    /\ running

\* C2 as stated: whenever transfer_file returned for a well-formed message
\* with labelling enabled and a hash other than "NotUsed", exactly one
\* acknowledgment "{hash}<TAB>DONE|NOPE" was published to "Label" at QoS 2.
C2_Original ==
    (Handled /\ msg.returned /\ labelling /\ MsgHash # NOT_USED) =>
        msg.pubs = <<[topic |-> "Label",
                      payload |-> AckText(MsgHash, msg.ret),
                      qos |-> 2]>>

\* C2 as amended: the same, provided connected is true when the
\* acknowledgment is due; when connected is false nothing is published.
C2_AckWhenConnected ==
    (Handled /\ msg.returned /\ labelling /\ MsgHash # NOT_USED) =>
        /\ msg.labelCalled
        /\ msg.labelConn =>
                msg.pubs = <<[topic |-> "Label",
                              payload |-> AckText(MsgHash, msg.ret),
                              qos |-> 2]>>
        /\ ~msg.labelConn => msg.pubs = <<>>

\* C2 happens: a failed transfer is acknowledged with NOPE
C2_Witness ==
    /\ Handled
    /\ msg.returned
    /\ ~msg.ret
    /\ labelling
    /\ MsgHash # NOT_USED
    /\ msg.labelConn
    /\ Len(msg.pubs) = 1

\* C3: a message whose hash is "NotUsed" never causes an acknowledgment,
\* whatever the labelling flag and the transfer's outcome.
C3_NotUsedNeverAcked ==
    (msg.xfers # <<>> /\ MsgHash = NOT_USED) =>
        /\ msg.pubs = <<>>
        /\ ~msg.labelCalled

\* C3 happens: labelling is enabled, the handler is connected, the transfer
\* of a "NotUsed" message succeeded
C3_Witness ==
    /\ Handled
    /\ MsgHash = NOT_USED
    /\ labelling
    /\ connected
    /\ msg.returned
    /\ msg.ret

\* C4: with the labelling flag disabled no message causes an acknowledgment,
\* whatever its hash and the transfer's outcome.
C4_NoLabellingNoAck ==
    ~labelling => (msg.pubs = <<>> /\ ~msg.labelCalled)

\* C4 happens: labelling is disabled, the handler is connected, the transfer
\* of a message with a real hash succeeded
C4_Witness ==
    /\ Handled
    /\ ~labelling
    /\ MsgHash # NOT_USED
    /\ connected
    /\ msg.returned
    /\ msg.ret

\* C5 as stated: publish_label_event called while connected is false makes no
\* client.publish call and hands its caller a failure indicator, that is a
\* value a successful publish does not return.
C5_Original ==
    (msg.labelCalled /\ ~msg.labelConn) =>
        /\ msg.pubs = <<>>
        /\ msg.labelRet # PublishLabelEvent(TRUE, MsgHash, msg.ret, "ok").ret

\* C5 as amended: publish_label_event called while connected is false makes
\* no client.publish call and returns at once, without waiting for a
\* connection (connected is still false when on_message has returned); it
\* returns None, which is also what it returns after a publish.
C5_DisconnectedPublishSkipped ==
    /\ (msg.labelCalled /\ ~msg.labelConn) =>
            /\ msg.pubs = <<>>
            /\ msg.labelRet = "None"
            /\ msg.outcome = "returned"
            /\ npc = "idle"
            /\ ~connected
            /\ Snapshot = pre
    /\ (msg.labelCalled /\ msg.labelConn) =>
            /\ Len(msg.pubs) = 1
            /\ msg.labelRet = "None"

\* C5 happens: publish_label_event is called without a connection
C5_Witness ==
    /\ Handled
    /\ msg.labelCalled
    /\ ~msg.labelConn
    /\ msg.ret

\* C6 as stated: on_message never lets an exception escape into the
\* transport's callback context.
C6_NeverRaises == msg.outcome # "raised"

\* C7: on_connect with result code 0 sets connected and issues, in the same
\* callback, exactly one subscribe request, for "Down" at QoS 2.
C7_ConnectSubscribes ==
    (lastOp = "on_connect" /\ lastNum = 0) =>
        /\ connected
        /\ subscribed = <<[topic |-> "Down", qos |-> 2]>>

\* C7 happens: a handler that was not connected gets on_connect(0)
C7_Witness ==
    /\ lastOp = "on_connect"
    /\ lastNum = 0
    /\ ~pre.connected
    /\ running

\* C8: on_connect with a nonzero result code, known (1..5) or not, leaves
\* connected false and issues no subscribe request.
C8_RefusalNotConnected ==
    (lastOp = "on_connect" /\ lastNum # 0) =>
        /\ ~connected
        /\ subscribed = <<>>

\* C8 happens: an unknown code arrives at a handler that was connected
C8_Witness ==
    /\ lastOp = "on_connect"
    /\ lastNum = 99
    /\ pre.connected

\* C9: on_connect with result code 0 resets the current backoff to the
\* initial 5 s, whatever it had grown to.
C9_BackoffReset ==
    (lastOp = "on_connect" /\ lastNum = 0) => current_reconnect_delay = 5

\* C9 happens: the backoff had grown to the maximum before on_connect(0)
C9_Witness ==
    /\ lastOp = "on_connect"
    /\ lastNum = 0
    /\ pre.delay = 60

\* C10: after a failed connect attempt the backoff read (lastNum) is replaced
\* by min(2 * read, 60): it doubles while the double is within the maximum,
\* grows strictly below the maximum, and never exceeds the maximum.
C10_BackoffDoubles ==
    /\ current_reconnect_delay <= 60
    /\ lastOp = "backoff_write" =>
            /\ current_reconnect_delay = Min(2 * lastNum, 60)
            /\ 2 * lastNum <= 60 => current_reconnect_delay = 2 * lastNum
            /\ lastNum < 60 => current_reconnect_delay > lastNum

\* C10 happens: the backoff of 40 s is capped at 60 s, not doubled to 80 s
C10_Witness ==
    /\ lastOp = "backoff_write"
    /\ lastNum = 40
    /\ current_reconnect_delay = 60

\* C11: each wait uses the backoff as it is before line 108 doubles it: the
\* waits of start()'s first run of failed attempts are 5, 10, 20, ... in that
\* order, each later wait of a run is min(2 * the one before, 60), and
\* on_connect with result code 0 after such a run resets the backoff to 5.
C11_WaitsBeforeDoubling ==
    /\ lastOp = "backoff_sleep" => lastNum = pre.delay
    /\ \A i \in 1..(Len(waits) - 1) : waits[i + 1] = Min(2 * waits[i], 60)
    /\ (mret = "start" /\ waits # <<>>) => waits[1] = 5
    /\ (lastOp = "on_connect" /\ lastNum = 0) => current_reconnect_delay = 5

\* C11 happens: three failed attempts waited 5, 10, 20; the fourth attempt
\* was accepted and the backoff, grown to 40, is back at 5
C11_Witness ==
    /\ lastOp = "on_connect"
    /\ lastNum = 0
    /\ waits = <<5, 10, 20>>
    /\ mret = "start"
    /\ pre.delay = 40
    /\ current_reconnect_delay = 5

\* C12: every on_disconnect callback, whatever its result code (0 clean,
\* nonzero abnormal), leaves connected false.
C12_DisconnectClearsConnected ==
    lastOp = "on_disconnect" => ~connected

\* C12 happens: a clean disconnect (rc 0) reaches a connected, running handler
C12_Witness ==
    /\ lastOp = "on_disconnect"
    /\ lastNum = 0
    /\ pre.connected
    /\ pre.running

\* The supervising loop is at work and nothing is stopping the handler
Undisturbed == InTry /\ running /\ loop_running /\ xpc = "idle"

\* C13: a poll that finds connected false re-invokes the connect procedure;
\* and as long as the supervising loop is at work with running true and
\* connected false, a further connect attempt is eventually made.
C13_PollReconnects ==
    /\ []((lastOp = "poll_connected" /\ ~pre.connected) =>
            (mpc = "cwr_test" /\ mret = "loop"))
    /\ (InTry /\ running /\ ~connected /\ lastOp # "connect")
            ~> (lastOp = "connect" \/ ~InTry \/ ~running \/ connected)

\* C13 happens: the supervising loop, polling a running handler that lost
\* its connection, has made a connect attempt
C13_Witness ==
    /\ lastOp = "connect"
    /\ mret = "loop"
    /\ running
    /\ ~connected
    /\ xpc = "idle"

\* on_connect(0) has set connected and asked for "Down" at QoS 2
Recovered ==
    /\ lastOp = "on_connect"
    /\ lastNum = 0
    /\ connected
    /\ subscribed = <<[topic |-> "Down", qos |-> 2]>>

\* C14: after an on_disconnect that reaches a running handler whose
\* supervising loop is at work, given a broker that accepts connections, the
\* handler is eventually connected again by an on_connect(0) that subscribes
\* to "Down" anew, unless it is stopped or interrupted meanwhile.
C14_Recovers ==
    (lastOp = "on_disconnect" /\ Undisturbed)
        ~> (Recovered \/ ~Undisturbed)

\* C14 happens: the connect request of the supervising loop was accepted
\* and the handler, which had waited 5 s and 10 s for it, is connected again
C14_Witness ==
    /\ Recovered
    /\ Undisturbed
    /\ ~pre.connected
    /\ mret = "loop"
    /\ waits = <<5, 10>>

\* A connect attempt has just failed
ConnectFailed == lastOp = "connect" /\ lastArg = "raised"

\* C15: a failed connect attempt neither ends start() nor raises: the
\* retrying thread goes on to the backoff wait; and after the wait another
\* attempt follows, unless by then the handler is stopped, interrupted or
\* connected.
C15_FailuresNotFatal ==
    /\ [](ConnectFailed => mpc = "cwr_sleep")
    /\ ConnectFailed
            ~> (lastOp = "backoff_sleep" \/ mpc \in {"stop_running", "raised"})
    /\ (lastOp = "backoff_sleep" /\ running)
            ~> (lastOp = "connect" \/ mpc \in {"stop_running", "raised"}
                \/ ~running \/ connected)

\* C15 happens: the fourth consecutive attempt of start() has failed and the
\* handler is still running and retrying
C15_Witness ==
    /\ ConnectFailed
    /\ waits = <<5, 10, 20>>
    /\ mret = "start"
    /\ running
    /\ mpc = "cwr_sleep"

\* C16: stop() sets running false (line 79), halts the network loop (line
\* 82) and calls client.disconnect() if and only if connected is true when
\* line 83 reads it.
C16_StopEffects ==
    /\ lastOp \in {"stop_running", "out_stop_running"} => ~running
    /\ lastOp \in {"loop_stop", "out_loop_stop"} => ~loop_running
    /\ lastOp \in {"stop_disconnect", "out_stop_disconnect"} =>
            /\ lastArg \in {"disconnect", "skip"}
            /\ lastArg = "disconnect" <=> pre.connected

\* C16 happens: a stop() from outside, while start() sleeps in its poll of a
\* connected handler, has disconnected
C16_Witness ==
    /\ lastOp = "out_stop_disconnect"
    /\ lastArg = "disconnect"
    /\ xpc = "idle"
    /\ mpc = "poll_sleep"
    /\ ~running
    /\ ~loop_running

\* C17: a stop() that returns before start() is called, or after start() has
\* returned through its own stop(), leaves running false; every step of
\* stop() can be taken once the callback in progress has returned.
C17_StopAlwaysSafe ==
    /\ (lastOp = "out_stop_disconnect" /\ mpc \in {"init", "stopped"})
            => ~running
    /\ (mpc = "stopped" /\ xpc = "idle") => ~running
    /\ (xpc = "stop_loop" /\ npc = "idle") => ENABLED ExtStopLoop
    /\ xpc = "stop_disconnect" => ENABLED ExtStopDisconnect

\* C17 happens: start() has returned through its own stop(), and a stop()
\* from outside has run to its end after that, calling disconnect on the
\* handler that is still marked connected
C17_Witness ==
    /\ mpc = "stopped"
    /\ lastOp = "out_stop_disconnect"
    /\ lastArg = "disconnect"
    /\ xpc = "idle"
    /\ ~running

\* C18 as stated: no connect attempt is issued once stop() has been invoked,
\* that is once running has been set false.
C18_NoConnectAfterStop ==
    lastOp = "connect" => pre.running

\* C19: start() leaves its supervising loop only when it finds running false
\* or on an interrupt; it returns only from the last step of its own stop(),
\* and when it has returned running is false and the network loop is halted.
C19_StartBlocksUntilStopped ==
    /\ [][(mpc # "stop_running" /\ mpc' = "stop_running") =>
            \/ lastOp' = "interrupt"
            \/ (lastOp' = "poll_running" /\ ~running)]_vars
    /\ [][(mpc # "stopped" /\ mpc' = "stopped") =>
            (mpc = "stop_disconnect" /\ lastOp' = "stop_disconnect")]_vars
    /\ [](mpc = "stopped" => (~running /\ ~loop_running))

\* C19 happens: start() has just returned; its own stop() was the last
\* thing it did and has disconnected the handler
C19_Witness ==
    /\ mpc = "stopped"
    /\ lastOp = "stop_disconnect"
    /\ lastArg = "disconnect"
    /\ ~running
    /\ ~loop_running

\* C20: an on_connect(0) whose subscribe request fails leaves connected
\* true and the backoff at 5, and does not move the thread in start(); a
\* poll that finds connected true makes no connect attempt.
C20_SubscribeFailureNoReconnect ==
    /\ [][(lastOp' = "on_connect" /\ lastArg' = "error") =>
            /\ connected'
            /\ current_reconnect_delay' = 5
            /\ running' = running
            /\ mpc' = mpc
            /\ mret' = mret]_vars
    /\ []((lastOp = "poll_connected" /\ pre.connected) => mpc = "poll_sleep")

\* C20 happens: the subscribe request failed after a connect that followed
\* a backoff grown to 20 s, while the supervising loop was about to poll
C20_Witness ==
    /\ lastOp = "on_connect"
    /\ lastArg = "error"
    /\ pre.delay = 20
    /\ ~pre.connected
    /\ mpc = "poll_connected"
    /\ running

\* C21 as stated: the accesses of the thread in start() and of the callbacks
\* to connected, running and the current backoff are serialized, so that what
\* the thread in start() read is what the field still holds when it acts on
\* it: the delay it doubles is the current one, and client.connect is called
\* with running true and connected false, as the test at line 91 found them.
C21_Serialized ==
    /\ lastOp = "backoff_write" => lastNum = pre.delay
    /\ lastOp = "connect" => (pre.running /\ ~pre.connected)

\* The payload cut to its first three tab-separated fields (a tab is one
\* byte in UTF-8, so the cut is the same on bytes and on text)
Truncated(payload) == Join(SubSeq(Split(payload), 1, 3))

\* For each payload, the fields of the payload truncated to three fields
TruncatedFields ==
    [p \in Payloads |-> Split(Decode(Truncated(p)).text)]

\* The transfer_file call that ended with the last step: its answers and
\* its result
Xfer == msg.done[1]

\* C22: of a payload with three or more tab-separated fields only the first
\* three are used.  The fields on_message keeps are those of the payload
\* truncated to three fields; they are kept until transfer_file is called
\* with them; and the transfer's result and the acknowledgment, if any, are
\* those of these three fields.
C22_OnlyFirstThree ==
    [][/\ (lastOp' = "on_message" /\ lastArg' = "parsed") =>
            /\ event' = TruncatedFields[msg'.payload]
            /\ Len(event') = 3
       /\ (npc = "transfer" /\ npc' = "transfer") => event' = event
       /\ (npc = "transfer" /\ npc' = "idle") =>
            /\ msg'.xfers = <<event>>
            /\ msg'.done[1].res =
                   TransferFile(type_to_dir, event[1], event[3], cwd,
                                msg'.done[1].env)
            /\ msg'.pubs =
                   IF /\ labelling
                      /\ event[2] # NOT_USED
                      /\ ~msg'.done[1].res.raised
                   THEN PublishLabelEvent(connected, event[2],
                                          msg'.done[1].res.ret, "ok").calls
                   ELSE <<>>]_vars

\* C22 happens: a payload of more than three fields arrives at a connected
\* handler with labelling enabled
C22_Witness ==
    /\ lastOp = "on_message"
    /\ lastArg = "parsed"
    /\ Len(Split(msg.payload)) > 3
    /\ labelling
    /\ connected

\* The target and the type code transfer_file was called with
XTarget == msg.xfers[1][1]
XType == msg.xfers[1][3]

\* C23: a type code absent from the map, with "ERR" present, resolves to the
\* ERR directory and the transfer proceeds there: the directory checked and
\* changed into is the ERR directory, mirror is run once the checks pass, and
\* the call ends as the call for the type code "ERR" with the same answers
\* does, so that it fails only where a known type would fail too.
C23_ErrFallback ==
    (Handled /\ XType \notin DOMAIN type_to_dir /\ ERR \in DOMAIN type_to_dir)
    =>  /\ Xfer.res.dest = type_to_dir[ERR]
        /\ Xfer.res.steps # <<>>
        /\ Xfer.res =
               TransferFile(type_to_dir, XTarget, ERR, cwd, Xfer.env)
        /\ (/\ Xfer.env.isdir
            /\ Xfer.env.getcwd_ok
            /\ Xfer.env.chdir_ok
            /\ Xfer.env.lftp)
           => /\ cwd = type_to_dir[ERR]
              /\ Xfer.res.runs # <<>>
              /\ Xfer.res.runs[1] = MirrorCmd(XTarget)
        /\ (Xfer.env.isdir /\ Xfer.env.getcwd_ok /\ Xfer.env.chdir_ok
            /\ Xfer.env.lftp /\ Xfer.env.mirror = "ok")
           => (msg.returned /\ msg.ret)

\* C23 happens: a message with the unknown type code "f" is transferred into
\* the ERR directory
C23_Witness ==
    /\ Handled
    /\ XType = F_TXT
    /\ F_TXT \notin DOMAIN type_to_dir
    /\ ERR \in DOMAIN type_to_dir
    /\ msg.returned
    /\ msg.ret
    /\ cwd = "/d/err"

\* C24: with a type code absent from the map and no "ERR" entry,
\* transfer_file returns false having run no subprocess, made no call to the
\* file system (no directory check, no chdir, no chmod) and left the working
\* directory where it was.
C24_UnmappedFailsAtOnce ==
    [][(/\ npc = "transfer"
        /\ npc' = "idle"
        /\ event[3] \notin DOMAIN type_to_dir
        /\ ERR \notin DOMAIN type_to_dir)
       => /\ msg'.returned
          /\ ~msg'.ret
          /\ msg'.runs = <<>>
          /\ msg'.done[1].res.steps = <<>>
          /\ msg'.done[1].res.chmod = <<>>
          /\ cwd' = cwd]_vars

\* C24 happens: a message with the unknown type code "f" is handled with a
\* map that has no "ERR" entry
C24_Witness ==
    /\ Handled
    /\ XType = F_TXT
    /\ DOMAIN type_to_dir = {MOV}
    /\ msg.returned
    /\ ~msg.ret

\* C25: when the mirror invocation ends with a non-zero exit, pget is invoked
\* once, for the same target, before transfer_file ends: there are exactly
\* two subprocess invocations, mirror then pget, whatever pget answers, and
\* none after them.
C25_OneFallback ==
    (Handled /\ Xfer.res.runs # <<>> /\ Xfer.env.mirror = "fail") =>
        /\ Xfer.res.runs =
               <<[cmd |-> "mirror", target |-> XTarget],
                 [cmd |-> "pget", target |-> XTarget]>>
        /\ msg.runs = Xfer.res.runs
        /\ Xfer.res.steps = Checks \o <<"run", "run">>
           \/ Xfer.res.steps = Checks \o <<"run", "run", "chmod">>
        /\ msg.returned => (msg.ret <=> Xfer.env.pget = "ok")

\* C25 happens: mirror fails and the fallback fails too
C25_Witness ==
    /\ Handled
    /\ Xfer.env.mirror = "fail"
    /\ Xfer.env.pget = "fail"
    /\ Len(msg.runs) = 2
    /\ msg.returned
    /\ ~msg.ret

\* An invocation of cmd was made in the transfer_file call that just ended,
\* and it exited with status 0
Succeeded(cmd) ==
    /\ \E i \in 1..Len(Xfer.res.runs) : Xfer.res.runs[i].cmd = cmd
    /\ IF cmd = "mirror" THEN Xfer.env.mirror = "ok" ELSE Xfer.env.pget = "ok"

\* C26: transfer_file returns true if and only if the mirror invocation or
\* the pget invocation succeeded; it returns false for an unknown type code
\* without "ERR", a missing directory, a failed chdir, a missing lftp and two
\* failed invocations; and a call that an exception ends had no invocation
\* that succeeded.
C26_TrueIffTransferred ==
    Handled =>
        /\ msg.returned =>
               (msg.ret <=> (Succeeded("mirror") \/ Succeeded("pget")))
        /\ ~msg.returned => ~(Succeeded("mirror") \/ Succeeded("pget"))
        /\ (\/ Unmapped(type_to_dir, XType)
            \/ ~Xfer.env.isdir
            \/ (Xfer.env.getcwd_ok /\ ~Xfer.env.chdir_ok)
            \/ ~Xfer.env.lftp
            \/ (Xfer.env.mirror = "fail" /\ Xfer.env.pget = "fail"))
           => (msg.returned /\ ~msg.ret)

\* C26 happens: mirror fails, pget succeeds, transfer_file returns true
C26_Witness ==
    /\ Handled
    /\ Xfer.env.mirror = "fail"
    /\ Xfer.env.pget = "ok"
    /\ Len(msg.runs) = 2
    /\ msg.returned
    /\ msg.ret

\* C27: when the type code is in the map and the mirror invocation succeeds,
\* transfer_file returns true, the directory resolved and changed into is the
\* one mapped to that type code, and the mirror invocation is the only
\* subprocess invocation: pget is not invoked.
C27_MirrorSuccess ==
    (/\ Handled
     /\ XType \in DOMAIN type_to_dir
     /\ Xfer.res.runs # <<>>
     /\ Xfer.env.mirror = "ok")
    =>  /\ msg.returned
        /\ msg.ret
        /\ Xfer.res.dest = type_to_dir[XType]
        /\ cwd = type_to_dir[XType]
        /\ msg.runs = <<[cmd |-> "mirror", target |-> XTarget]>>
        /\ \A i \in 1..Len(Xfer.res.runs) : Xfer.res.runs[i].cmd # "pget"

\* C27 happens: a "MOV" message is mirrored into /d/movies, with a map that
\* also has an "ERR" entry
C27_Witness ==
    /\ Handled
    /\ XType = MOV
    /\ ERR \in DOMAIN type_to_dir
    /\ Xfer.env.mirror = "ok"
    /\ Len(msg.runs) = 1
    /\ msg.ret
    /\ cwd = "/d/movies"

\* C28: a destination directory that does not exist, a chdir into it that
\* fails, and an lftp that is not on the path each make transfer_file return
\* false with no subprocess invocation; the failing check is the last call
\* made, and each check was made once.
C28_PreconditionFailures ==
    Handled =>
        /\ ~Xfer.env.isdir =>
               /\ msg.returned /\ ~msg.ret /\ msg.runs = <<>>
               /\ Xfer.res.steps = <<"isdir">>
        /\ (Xfer.env.isdir /\ Xfer.env.getcwd_ok /\ ~Xfer.env.chdir_ok) =>
               /\ msg.returned /\ ~msg.ret /\ msg.runs = <<>>
               /\ Xfer.res.steps = <<"isdir", "getcwd", "chdir">>
        /\ (/\ Xfer.env.isdir /\ Xfer.env.getcwd_ok /\ Xfer.env.chdir_ok
            /\ ~Xfer.env.lftp) =>
               /\ msg.returned /\ ~msg.ret /\ msg.runs = <<>>
               /\ Xfer.res.steps = <<"isdir", "getcwd", "chdir", "which">>

\* C28 happens: the destination directory of a "MOV" message does not exist
C28_Witness ==
    /\ Handled
    /\ XType = MOV
    /\ ~Xfer.env.isdir
    /\ msg.returned
    /\ ~msg.ret

\* C29: once the transfer attempts are over, whichever of them succeeded or
\* none, os.chmod is attempted once, as the last call, on the basename of the
\* target; its failure is only logged, and the boolean returned is the one
\* the same call returns when chmod answers the other way.
C29_ChmodNeverDecides ==
    (Handled /\ msg.returned /\ msg.runs # <<>>) =>
        /\ Xfer.res.chmod = <<Basename(XTarget)>>
        /\ Xfer.res.steps[Len(Xfer.res.steps)] = "chmod"
        /\ Xfer.res.steps[Len(Xfer.res.steps) - 1] = "run"
        /\ Xfer.res.warned <=> ~Xfer.env.chmod_ok
        /\ msg.ret =
               TransferFile(type_to_dir, XTarget, XType, cwd,
                            [Xfer.env EXCEPT !.chmod_ok = ~@]).ret

\* C29 happens: the transfer succeeds, chmod fails, true is returned
C29_Witness ==
    /\ Handled
    /\ msg.returned
    /\ msg.ret
    /\ ~Xfer.env.chmod_ok
    /\ Xfer.res.warned

\* C30: messages are handled one at a time, in the order the network loop
\* hands them to on_message.  on_message is entered only while no handling is
\* in progress; a handling in progress keeps its fields until its own
\* transfer and acknowledgment end it; and one on_message invocation makes at
\* most one transfer_file call.
C30_OneAtATime ==
    [][/\ lastOp' = "on_message" =>
              (npc = "idle" /\ msg.outcome # "running")
       /\ (npc = "transfer" /\ npc' = "transfer") =>
              (event' = event /\ msg'.outcome = "running"
               /\ msg'.xfers = <<>>)
       /\ (npc = "transfer" /\ npc' = "idle") =>
              (lastOp' = "transfer" /\ msg'.xfers = <<event>>
               /\ msg'.outcome # "running")
       /\ Len(msg'.xfers) <= 1]_vars

\* C30 happens: a message is taken up after an earlier one was transferred
\* into /d/movies
C30_Witness ==
    /\ lastOp = "on_message"
    /\ lastArg = "parsed"
    /\ npc = "transfer"
    /\ cwd = "/d/movies"

\* C31: acknowledgments are published in the order in which their transfers
\* complete.  An acknowledgment is published only by the step in which the
\* transfer_file call of its message returns, within the same on_message
\* invocation: it names that message's hash and that call's result, there is
\* at most one, and no step between two transfers publishes anything.
C31_AckInCompletionOrder ==
    [][msg'.pubs # <<>> =>
          /\ npc = "transfer"
          /\ lastOp' = "transfer"
          /\ msg'.returned
          /\ msg'.xfers = <<event>>
          /\ Len(msg'.pubs) = 1
          /\ msg'.pubs[1].payload = AckText(event[2], msg'.ret)]_vars

\* C31 happens: an earlier transfer had changed into /d/movies; the transfer
\* of a later message, whose directory is missing, has now completed and its
\* NOPE is out
C31_Witness ==
    /\ Handled
    /\ ~Xfer.env.isdir
    /\ cwd = "/d/movies"
    /\ msg.returned
    /\ ~msg.ret
    /\ Len(msg.pubs) = 1
    /\ lastArg = "ok"

\* The steps of stop(), whoever runs it
StopSteps ==
    {"stop_running", "loop_stop", "stop_disconnect",
     "out_stop_running", "out_loop_stop", "out_stop_disconnect"}

\* C32: stop() does not interrupt a transfer in progress.  A step of stop()
\* leaves the on_message invocation in progress as it is; the network loop
\* is halted only between callbacks, so the loop runs as long as a transfer
\* does; and a transfer in progress when running is already false still ends
\* with transfer_file returning its result.
C32_StopLetsTransferFinish ==
    /\ [][(lastOp' \in StopSteps /\ npc = "transfer") =>
             /\ npc' = "transfer"
             /\ event' = event
             /\ msg'.outcome = "running"
             /\ lastOp' \notin {"loop_stop", "out_loop_stop"}]_vars
    /\ [](npc = "transfer" => loop_running)
    /\ (npc = "transfer" /\ ~running)
            ~> (lastOp = "transfer" /\ msg.returned /\ msg.ret)

\* C32 happens: stop() is called while a transfer is in progress, and the
\* transfer goes on
C32_Witness ==
    /\ lastOp = "out_stop_running"
    /\ pre.running
    /\ ~running
    /\ npc = "transfer"
    /\ msg.outcome = "running"
    /\ loop_running

\* Where the thread is while ProcessEvent.start cleans up
PeCleanup == {"pe_stop_running", "pe_stop_loop", "pe_stop_disconnect"}

\* C33: an Exception that leaves the handler's start() arrives in
\* ProcessEvent.start, which runs stop() on the handler and then raises the
\* exception again: the cleanup is left only by the re-raise, never by a
\* normal return; when the exception is re-raised running is false and the
\* network loop is halted; and the re-raise does follow.
C33_CleanupThenReraise ==
    /\ [][(lastOp' = "loop_start" /\ lastArg' = "raised") =>
             mpc' = "pe_stop_running"]_vars
    /\ [][(mpc \in PeCleanup) =>
             (mpc' \in PeCleanup \/ mpc' = "pe_reraised")]_vars
    /\ [][(mpc # "pe_reraised" /\ mpc' = "pe_reraised") =>
             /\ mpc = "pe_stop_disconnect"
             /\ lastOp' = "pe_stop_disconnect"]_vars
    /\ [](mpc = "pe_reraised" => (~running /\ ~loop_running))
    /\ (lastOp = "loop_start" /\ lastArg = "raised") ~> (mpc = "pe_reraised")

\* C33 happens: start() raised with running true, ProcessEvent.start has
\* stopped the handler and re-raised
C33_Witness ==
    /\ mpc = "pe_reraised"
    /\ lastOp = "pe_stop_disconnect"
    /\ pre.connected = FALSE
    /\ ~running
    /\ xpc = "idle"

\* C34: in every reachable state the current backoff is one of 5, 10, 20,
\* 40, 60, also when an on_connect callback resets it between the read and
\* the store of the doubling.
C34_BackoffValues ==
    /\ current_reconnect_delay \in {5, 10, 20, 40, 60}
    /\ current_reconnect_delay >= 5
    /\ current_reconnect_delay <= 60

\* C34 happens: the doubling read 10, on_connect reset the backoff to 5, and
\* the store made it 20
C34_Witness ==
    /\ lastOp = "backoff_write"
    /\ lastNum = 10
    /\ pre.delay = 5
    /\ current_reconnect_delay = 20

\* C35: the supervisor never issues a connect while an earlier connect call
\* that returned without error still awaits its callback (requested: no
\* on_connect and no on_disconnect has been delivered since it returned); in
\* particular start() issues one connect before the first on_connect.
\* The code does not do this: line 67 reads connected right after loop_start,
\* before the loop thread can have delivered on_connect, and line 69 connects
\* again.
C35_NoSecondConnect ==
    [][(mpc = "cwr_connect" /\ lastOp' = "connect") => ~requested]_vars

\* C36: on_connect with a nonzero code leaves the backoff and running as they
\* were, adds no backoff wait and does not move the thread in start(); the
\* backoff sleep is entered only from a connect call that raised, and the
\* backoff grows only in the store that follows that sleep.  A refused
\* connection is retried by the supervising loop: finding connected false it
\* goes to the retry's test, and a connect call that returns there is
\* followed by the loop's sleep of 1 s.
C36_RefusalNoBackoff ==
    [][/\ (lastOp' = "on_connect" /\ lastNum' # 0) =>
            /\ current_reconnect_delay' = current_reconnect_delay
            /\ running' = running
            /\ mpc' = mpc
            /\ Len(waits') <= Len(waits)
       /\ (mpc # "cwr_sleep" /\ mpc' = "cwr_sleep") =>
            /\ mpc = "cwr_connect"
            /\ lastOp' = "connect"
            /\ lastArg' = "raised"
       /\ lastOp' = "backoff_sleep" => mpc = "cwr_sleep"
       /\ current_reconnect_delay' > current_reconnect_delay =>
            /\ lastOp' = "backoff_write"
            /\ mpc = "cwr_write"
       /\ (mpc = "poll_connected" /\ lastOp' = "poll_connected" /\ ~connected)
            => mpc' = "cwr_test"
       /\ (mpc = "cwr_connect" /\ lastArg' = "returned" /\ mret = "loop")
            => mpc' = "poll_sleep"
      ]_vars

\* C36 happens: with the backoff grown to 20 s, a connect made by the
\* supervising loop is refused (code 5); the backoff is still 20 s and the
\* thread in start() is at the loop's sleep
C36_Witness ==
    /\ lastOp = "on_connect"
    /\ lastNum = 5
    /\ pre.delay = 20
    /\ current_reconnect_delay = 20
    /\ running
    /\ mret = "loop"
    /\ mpc = "poll_sleep"

\* The first step of stop() and its last step, whoever runs it
ClearSteps == {"stop_running", "out_stop_running", "pe_stop_running"}
DisconnectSteps ==
    {"stop_disconnect", "out_stop_disconnect", "pe_stop_disconnect"}

\* C37: stop() writes running only.  Every step of stop() leaves the backoff
\* unchanged; its first step sets running false and the others leave it;
\* each step leaves connected unchanged, except that a disconnect during
\* which on_disconnect is delivered leaves it false.  disconnect is issued
\* exactly when connected is true, so a stop() on a handler that an earlier
\* stop() left connected issues disconnect again.
C37_StopWritesRunningOnly ==
    [][(lastOp' \in StopSteps \/ lastOp' \in ClearSteps
            \/ lastOp' \in DisconnectSteps \/ lastOp' = "pe_loop_stop") =>
         /\ current_reconnect_delay' = current_reconnect_delay
         /\ lastOp' \in ClearSteps => ~running'
         /\ lastOp' \notin ClearSteps => running' = running
         /\ lastNum' # 0 => connected' = connected
         /\ lastNum' = 0 =>
                /\ lastOp' \in DisconnectSteps
                /\ lastArg' = "disconnect"
                /\ ~connected'
         /\ lastOp' \in DisconnectSteps =>
                (lastArg' = "disconnect" <=> connected)
      ]_vars

\* C37 happens: start() has returned through its own stop(), which found the
\* handler connected (the loop was halted before, and connected is still
\* true), and a second stop() has issued disconnect again; no on_disconnect
\* was delivered and connected is still true
C37_Witness ==
    /\ mpc = "stopped"
    /\ xpc = "idle"
    /\ lastOp = "out_stop_disconnect"
    /\ lastArg = "disconnect"
    /\ lastNum = -1
    /\ pre.connected
    /\ connected
    /\ ~running
    /\ ~loop_running

\* C38: every well-formed message causes exactly one transfer_file
\* invocation.  on_message with three or more fields begins a transfer,
\* whatever the labelling flag, the hash and connected are; a transfer begins
\* only there; and the step that ends it has made one call, with or without
\* an acknowledgment, and leaves none in progress.
C38_OneTransferPerMessage ==
    [][/\ (lastOp' = "on_message" /\ msg'.decoded /\ lastNum' >= 3) =>
            /\ npc' = "transfer"
            /\ msg'.outcome = "running"
            /\ msg'.xfers = <<>>
       /\ (npc # "transfer" /\ npc' = "transfer") =>
            /\ lastOp' = "on_message"
            /\ lastNum' >= 3
       /\ (npc = "transfer" /\ npc' # "transfer") =>
            /\ lastOp' = "transfer"
            /\ npc' = "idle"
            /\ msg'.xfers = <<event>>
            /\ Len(msg'.done) = 1
       /\ lastOp' = "transfer" => npc = "transfer"
      ]_vars

\* C38 happens: labelling is enabled and the hash is a real one, but the
\* handler is not connected: no acknowledgment is published, and the one
\* transfer was made
C38_Witness ==
    /\ Handled
    /\ labelling
    /\ MsgHash # NOT_USED
    /\ ~connected
    /\ ~msg.labelConn
    /\ msg.pubs = <<>>
    /\ msg.returned
    /\ Len(msg.xfers) = 1
    /\ Len(msg.done) = 1

\* C39: acknowledgments are neither buffered nor retried.  Only the step
\* that ends a transfer makes publish calls: at most one, made while
\* connected is true, for the message of that transfer, also when the publish
\* fails.  With connected false it makes none, and no later step, on_connect
\* included, makes up for it.
C39_NoBufferNoRetry ==
    [][/\ lastOp' # "transfer" => msg'.pubs = <<>>
       /\ lastOp' = "transfer" =>
            /\ Len(msg'.pubs) <= 1
            /\ msg'.pubs # <<>> =>
                    /\ connected
                    /\ msg'.labelConn
                    /\ msg'.pubs[1].payload = AckText(event[2], msg'.ret)
            /\ (msg'.labelCalled /\ ~connected) =>
                    /\ msg'.pubs = <<>>
                    /\ lastArg' = "not_sent"
       /\ lastOp' = "on_connect" => ~msg'.labelCalled
      ]_vars

\* C39 happens: the transfer failed and its NOPE was due while connected was
\* false: nothing was published for it
C39_Witness ==
    /\ Handled
    /\ lastArg = "not_sent"
    /\ msg.labelCalled
    /\ ~msg.labelConn
    /\ msg.returned
    /\ ~msg.ret
    /\ msg.pubs = <<>>

\* C40 as stated: a transfer_file call that fails at the type lookup or at
\* the directory check leaves the working directory unchanged, and every call
\* that passes both leaves it at the destination directory.
C40_Original ==
    [][lastOp' = "transfer" =>
         LET x == msg'.done[1]
         IN  /\ Len(x.res.steps) <= 1 => cwd' = cwd
             /\ Len(x.res.steps) >= 2 => cwd' = x.res.dest
      ]_vars

\* C40 as amended: a call that fails at the type lookup or at the directory
\* check, or in which os.getcwd or os.chdir raises, leaves the working
\* directory unchanged.  A call in which os.chdir succeeds leaves it at the
\* destination directory, whatever follows in the call (chdir precedes the
\* check for lftp); and no step but a transfer changes the working
\* directory, so it is what later requests start from.
C40_WorkingDirectory ==
    [][/\ lastOp' = "transfer" =>
            LET x == msg'.done[1]
                chdirDone == Len(x.res.steps) >= 3 /\ x.env.chdir_ok
            IN  /\ ~chdirDone => cwd' = cwd
                /\ chdirDone =>
                        /\ cwd' = x.res.dest
                        /\ x.res.steps[3] = "chdir"
                        /\ Len(x.res.steps) >= 4
                        /\ x.res.steps[4] = "which"
       /\ lastOp' # "transfer" => cwd' = cwd
      ]_vars

\* C40 happens: a request for a type without a mapping went to the "ERR"
\* directory and failed there because lftp is missing; the working directory
\* stays changed
C40_Witness ==
    /\ Handled
    /\ Xfer.res.steps = <<"isdir", "getcwd", "chdir", "which">>
    /\ msg.returned
    /\ ~msg.ret
    /\ Xfer.res.dest = "/d/err"
    /\ cwd = "/d/err"

====
